---- MODULE Spec2Model ----
(***************************************************************************)
(* Puzzle input reading (src/input.rs): Input::open / Input::day, the      *)
(* consuming iterators lines(), parsed_lines::<u32>(), blocks(), and the   *)
(* partial readers line() and parse_line::<u32>().                         *)
(*                                                                         *)
(* A line is a sequence of one-character strings.  The byte stream behind  *)
(* BufReader::lines() is the sequence of items it returns: Ok(line) for a  *)
(* line that was read, Err(e) for a read that failed (an I/O error or a    *)
(* line that is not UTF-8).  After the last item the stream returns None.  *)
(***************************************************************************)
EXTENDS Integers, Sequences, FiniteSets, TLC

VARIABLES
    dir,      \* name of the file present in the input directory
    file,     \* what reading that file yields, item by item
    pc,       \* "start", "failed", "open", "lines", "parsed_lines", "blocks", "done"
    filename, \* the path the program asked to open
    opened,   \* result of Input::open: Ok(Input) or Err(e)
    pos,      \* reader: number of stream items consumed so far
    reads,    \* number of read_line calls issued to the file
    got,      \* results of the line() / parse_line() calls, in call order
    iter,     \* which iterator consumed the Input ("none" before)
    out,      \* items the iterator has yielded, in order
    puzzle    \* the state of the day's puzzle computation (see the day sections)

\* the state of the Input
input == <<dir, file, pc, filename, opened, pos, reads, got, iter, out>>

vars == <<dir, file, pc, filename, opened, pos, reads, got, iter, out, puzzle>>

\* no puzzle computation has started
NoPuzzle == [day |-> 0]

(* ------------------------------ bounds ------------------------------- *)

\* longest file, in stream items
MaxLines == 4

\* line()/parse_line() calls the program makes on one Input
MaxCalls == 3

(* ------------------------------ values ------------------------------- *)

Ok(v) == [ok |-> TRUE, val |-> v]

Err(e) == [ok |-> FALSE, err |-> e]

\* io::Error::new(kind, payload): the kind and the payload's message
IoError(kind, msg) == [kind |-> kind, msg |-> msg]

\* the error of a failed read of the underlying stream
ReadError == IoError("Other", "read failed")

\* texts of the lines a file is made of
LineTexts == { <<>>, <<" ">>, <<"1", "1">>, <<"3", " ">> }

\* what one read of the stream can return
Items == { Ok(t) : t \in LineTexts } \cup { Err(ReadError) }

Files == UNION { [1..n -> Items] : n \in 0..MaxLines }

\* the files of the input directory: the one puzzle input whose content is `file`
FileNames == { "day01.txt" }

\* names the program passes to Input::open
OpenNames == { "test-numbers", "test-blocks" }

\* days the program passes to Input::day
Days == { 1, 14 }

(* ------------------------------ Input::open --------------------------- *)

Digit == <<"0", "1", "2", "3", "4", "5", "6", "7", "8", "9">>

\* format!("day{:02}", day)
DayName(day) ==
    IF day < 10 THEN "day0" \o Digit[day + 1]
    ELSE IF day < 100 THEN "day" \o Digit[(day \div 10) + 1] \o Digit[(day % 10) + 1]
    ELSE "day" \o Digit[(day \div 100) + 1] \o Digit[((day \div 10) % 10) + 1]
               \o Digit[(day % 10) + 1]

\* INPUT_PATH/name with the extension set to txt
PathOf(name) == name \o ".txt"

\* File::open(filename)?
FileOpen(path) ==
    IF path = dir THEN Ok("Input") ELSE Err(IoError("NotFound", "No such file or directory"))

\* mutant of open: the result of File::open is not checked
open_unchecked(name) ==
    /\ pc = "start"
    /\ filename' = PathOf(name)
    /\ opened' = FileOpen(PathOf(name))
    /\ pc' = "open"
    /\ UNCHANGED <<dir, file, pos, reads, got, iter, out, puzzle>>

open(name) ==
    /\ pc = "start"
    /\ filename' = PathOf(name)
    /\ opened' = FileOpen(PathOf(name))
    /\ pc' = IF FileOpen(PathOf(name)).ok THEN "open" ELSE "failed"
    /\ UNCHANGED <<dir, file, pos, reads, got, iter, out, puzzle>>

day(d) == open(DayName(d))

(* ------------------------------ the stream ----------------------------- *)

\* mutant of NextItem: at the end of the file the reader seeks back to its start
NextItemRewinds(p) ==
    IF p < Len(file) THEN [some |-> TRUE, item |-> file[p + 1], pos |-> p + 1]
    ELSE [some |-> FALSE, item |-> Err(ReadError), pos |-> 0]

\* BufReader::lines().next() with the cursor at p: the item and the new cursor
NextItem(p) ==
    IF p < Len(file) THEN [some |-> TRUE, item |-> file[p + 1], pos |-> p + 1]
    ELSE [some |-> FALSE, item |-> Err(ReadError), pos |-> p]

(* ------------------------------ Input::line ---------------------------- *)

Exhausted == IoError("InvalidData", "Input exhausted")

\* mutant of LineResult: at the end of the input an empty line is returned
LineResultEmptyAtEnd(p) == IF NextItem(p).some THEN NextItem(p).item ELSE Ok(<<>>)

\* self.reader.by_ref().lines().next().ok_or_else(..)?
LineResult(p) == IF NextItem(p).some THEN NextItem(p).item ELSE Err(Exhausted)

\* mutant of line: lines() of a fresh adapter restarts at the cursor of the
\* previous call, so the line is returned without being consumed
line_unconsumed ==
    /\ pc = "open"
    /\ Len(got) < MaxCalls
    /\ got' = Append(got, [op |-> "line", res |-> LineResult(pos)])
    /\ pos' = pos
    /\ reads' = reads + 1
    /\ UNCHANGED <<dir, file, pc, filename, opened, iter, out, puzzle>>

line ==
    /\ pc = "open"
    /\ Len(got) < MaxCalls
    /\ got' = Append(got, [op |-> "line", res |-> LineResult(pos)])
    /\ pos' = NextItem(pos).pos
    /\ reads' = reads + 1
    /\ UNCHANGED <<dir, file, pc, filename, opened, iter, out, puzzle>>

(* ------------------------------ Input::lines --------------------------- *)

lines ==
    /\ pc = "open"
    /\ pc' = "lines"
    /\ iter' = "lines"
    /\ UNCHANGED <<dir, file, filename, opened, pos, reads, got, out, puzzle>>

\* Iterator::next of lines()
lines_next ==
    /\ pc = "lines"
    /\ reads' = reads + 1
    /\ pos' = NextItem(pos).pos
    /\ IF NextItem(pos).some
         THEN out' = Append(out, NextItem(pos).item) /\ pc' = pc
         ELSE out' = out /\ pc' = "done"
    /\ UNCHANGED <<dir, file, filename, opened, got, iter, puzzle>>

(* ------------------------------ str::parse::<u32> ---------------------- *)

\* char::to_digit(10): the digit's value, or -1 when c is no decimal digit
ToDigit(c) ==
    IF \E i \in 1..10 : Digit[i] = c THEN (CHOOSE i \in 1..10 : Digit[i] = c) - 1 ELSE -1

\* acc.checked_mul(10)?.checked_add(d) overflows u32 (u32::MAX = 4294967295)
Overflows(acc, d) == acc > 429496729 \/ (acc = 429496729 /\ d > 5)

\* the digit loop of u32::from_str
RECURSIVE ParseDigits(_, _)
ParseDigits(s, acc) ==
    IF s = <<>> THEN Ok(acc)
    ELSE IF ToDigit(Head(s)) < 0 THEN Err("InvalidDigit")
    ELSE IF Overflows(acc, ToDigit(Head(s))) THEN Err("PosOverflow")
    ELSE ParseDigits(Tail(s), acc * 10 + ToDigit(Head(s)))

\* <u32 as FromStr>::from_str(s): Ok(value) or Err(IntErrorKind)
ParseU32(s) ==
    IF s = <<>> THEN Err("Empty")
    ELSE IF Len(s) = 1 /\ Head(s) \in {"+", "-"} THEN Err("InvalidDigit")
    ELSE IF Head(s) = "+" THEN ParseDigits(Tail(s), 0)
    ELSE ParseDigits(s, 0)

\* mutant of ParseIntErrorText: every failure is reported as an invalid digit
ParseIntErrorTextDigit(kind) == "invalid digit found in string"

\* Display of ParseIntError
ParseIntErrorText(kind) ==
    CASE kind = "Empty" -> "cannot parse integer from empty string"
      [] kind = "InvalidDigit" -> "invalid digit found in string"
      [] kind = "PosOverflow" -> "number too large to fit in target type"

\* s.parse().map_err(|e| io::Error::new(io::ErrorKind::InvalidData, e))
parse(s) ==
    IF ParseU32(s).ok THEN Ok(ParseU32(s).val)
    ELSE Err(IoError("InvalidData", ParseIntErrorText(ParseU32(s).err)))

\* line.and_then(|s| s.parse().map_err(..))
ParseItem(item) == IF item.ok THEN parse(item.val) ELSE item

(* ------------------------------ Input::parse_line ---------------------- *)

parse_line ==
    /\ pc = "open"
    /\ Len(got) < MaxCalls
    /\ got' = Append(got, [op |-> "parse_line", res |-> ParseItem(LineResult(pos))])
    /\ pos' = NextItem(pos).pos
    /\ reads' = reads + 1
    /\ UNCHANGED <<dir, file, pc, filename, opened, iter, out, puzzle>>

(* ------------------------------ Input::parsed_lines -------------------- *)

parsed_lines ==
    /\ pc = "open"
    /\ pc' = "parsed_lines"
    /\ iter' = "parsed_lines"
    /\ UNCHANGED <<dir, file, filename, opened, pos, reads, got, out, puzzle>>

\* mutant of parsed_lines_next: the sequence ends at the first error item
parsed_lines_next_fused ==
    /\ pc = "parsed_lines"
    /\ reads' = reads + 1
    /\ pos' = NextItem(pos).pos
    /\ IF NextItem(pos).some
         THEN /\ out' = Append(out, ParseItem(NextItem(pos).item))
              /\ pc' = IF ParseItem(NextItem(pos).item).ok THEN pc ELSE "done"
         ELSE out' = out /\ pc' = "done"
    /\ UNCHANGED <<dir, file, filename, opened, got, iter, puzzle>>

\* Iterator::next of parsed_lines()
parsed_lines_next ==
    /\ pc = "parsed_lines"
    /\ reads' = reads + 1
    /\ pos' = NextItem(pos).pos
    /\ IF NextItem(pos).some
         THEN out' = Append(out, ParseItem(NextItem(pos).item)) /\ pc' = pc
         ELSE out' = out /\ pc' = "done"
    /\ UNCHANGED <<dir, file, filename, opened, got, iter, puzzle>>

(* ------------------------------ Input::blocks -------------------------- *)

IsWhitespace(c) == c \in {" ", "\t"}

RECURSIVE TrimStart(_)
TrimStart(s) ==
    IF s # <<>> /\ IsWhitespace(Head(s)) THEN TrimStart(Tail(s)) ELSE s

RECURSIVE TrimEnd(_)
TrimEnd(s) ==
    IF s # <<>> /\ IsWhitespace(s[Len(s)]) THEN TrimEnd(SubSeq(s, 1, Len(s) - 1)) ELSE s

\* str::trim
Trim(s) == TrimEnd(TrimStart(s))

\* mutant of is_blank_line: the line is compared without trimming it
is_blank_line_untrimmed(item) == IF item.ok THEN item.val = <<>> ELSE FALSE

is_blank_line(item) == IF item.ok THEN Trim(item.val) = <<>> ELSE FALSE

is_not_blank_line(item) == ~is_blank_line(item)

\* mutant of SkipWhile: at most one blank line is skipped
SkipWhileOnce(p, n) ==
    IF NextItem(p).some /\ is_blank_line(NextItem(p).item)
        THEN [pos |-> p + 1, reads |-> n + 1]
        ELSE [pos |-> p, reads |-> n]

\* lines.skip_while(is_blank_line): the number of items consumed before the
\* first item that is not a blank line (that item is the adapter's first
\* element), and the read_line calls made on the way
RECURSIVE SkipWhile(_, _)
SkipWhile(p, n) ==
    IF NextItem(p).some /\ is_blank_line(NextItem(p).item) THEN SkipWhile(p + 1, n + 1)
    ELSE [pos |-> p, reads |-> n]

\* mutant of TryCollect: the block is cut after its first line
TryCollectSingle(p, acc, n) ==
    IF ~NextItem(p).some THEN [res |-> Ok(acc), pos |-> p, reads |-> n + 1]
    ELSE IF ~is_not_blank_line(NextItem(p).item)
        THEN [res |-> Ok(acc), pos |-> p + 1, reads |-> n + 1]
    ELSE IF ~NextItem(p).item.ok
        THEN [res |-> NextItem(p).item, pos |-> p + 1, reads |-> n + 1]
    ELSE [res |-> Ok(Append(acc, NextItem(p).item.val)), pos |-> p + 1, reads |-> n + 1]

\* mutant of TryCollect: the line after the terminating blank line is read too
RECURSIVE TryCollectAhead(_, _, _)
TryCollectAhead(p, acc, n) ==
    IF ~NextItem(p).some THEN [res |-> Ok(acc), pos |-> p, reads |-> n + 1]
    ELSE IF ~is_not_blank_line(NextItem(p).item)
        THEN [res |-> Ok(acc), pos |-> NextItem(p + 1).pos, reads |-> n + 2]
    ELSE IF ~NextItem(p).item.ok
        THEN [res |-> NextItem(p).item, pos |-> p + 1, reads |-> n + 1]
    ELSE TryCollectAhead(p + 1, Append(acc, NextItem(p).item.val), n + 1)

\* mutant of TryCollect: at an Err item the lines collected so far are the block
RECURSIVE TryCollectKeeps(_, _, _)
TryCollectKeeps(p, acc, n) ==
    IF ~NextItem(p).some THEN [res |-> Ok(acc), pos |-> p, reads |-> n + 1]
    ELSE IF ~is_not_blank_line(NextItem(p).item)
        THEN [res |-> Ok(acc), pos |-> p + 1, reads |-> n + 1]
    ELSE IF ~NextItem(p).item.ok
        THEN [res |-> Ok(acc), pos |-> p + 1, reads |-> n + 1]
    ELSE TryCollectKeeps(p + 1, Append(acc, NextItem(p).item.val), n + 1)

\* .take_while(is_not_blank_line).try_collect() from cursor p: items are taken
\* until the stream ends, a blank line is read (consumed and dropped), or an
\* Err item is read (collecting into io::Result stops there and returns it)
RECURSIVE TryCollect(_, _, _)
TryCollect(p, acc, n) ==
    IF ~NextItem(p).some THEN [res |-> Ok(acc), pos |-> p, reads |-> n + 1]
    ELSE IF ~is_not_blank_line(NextItem(p).item)
        THEN [res |-> Ok(acc), pos |-> p + 1, reads |-> n + 1]
    ELSE IF ~NextItem(p).item.ok
        THEN [res |-> NextItem(p).item, pos |-> p + 1, reads |-> n + 1]
    ELSE TryCollect(p + 1, Append(acc, NextItem(p).item.val), n + 1)

\* mutant of Batch: the first non-blank item, found by skip_while, is lost
BatchDropsFirst(p) ==
    IF NextItem(SkipWhile(p, 0).pos).some
        THEN TryCollect(SkipWhile(p, 0).pos + 1, <<>>, SkipWhile(p, 0).reads + 1)
        ELSE TryCollect(SkipWhile(p, 0).pos, <<>>, SkipWhile(p, 0).reads)

\* the closure given to batching(): the block collected from cursor p
Batch(p) == TryCollect(SkipWhile(p, 0).pos, <<>>, SkipWhile(p, 0).reads)

\* match block { Ok(ref lines) if !lines.is_empty() => Some(block), _ => None }
BatchYields(block) == block.ok /\ block.val # <<>>

blocks ==
    /\ pc = "open"
    /\ pc' = "blocks"
    /\ iter' = "blocks"
    /\ UNCHANGED <<dir, file, filename, opened, pos, reads, got, out, puzzle>>

\* Iterator::next of blocks()
blocks_next ==
    /\ pc = "blocks"
    /\ reads' = reads + Batch(pos).reads
    /\ pos' = Batch(pos).pos
    /\ IF BatchYields(Batch(pos).res)
         THEN out' = Append(out, Batch(pos).res) /\ pc' = pc
         ELSE out' = out /\ pc' = "done"
    /\ UNCHANGED <<dir, file, filename, opened, got, iter, puzzle>>

(* ------------------------------ specification -------------------------- *)

Init ==
    /\ dir \in FileNames
    /\ file \in Files
    /\ pc = "start"
    /\ filename = ""
    /\ opened = Err(IoError("None", ""))
    /\ pos = 0
    /\ reads = 0
    /\ got = <<>>
    /\ iter = "none"
    /\ out = <<>>
    /\ puzzle = NoPuzzle

Next ==
    \/ \E name \in OpenNames : open(name)
    \/ \E d \in Days : day(d)
    \/ line
    \/ lines
    \/ lines_next
    \/ parse_line
    \/ parsed_lines
    \/ parsed_lines_next
    \/ blocks
    \/ blocks_next

Spec == Init /\ [][Next]_vars


(* ------------------------------ reference notions ---------------------- *)

\* the cursor at which the iterator took over the Input
Start == IF Len(got) < Len(file) THEN Len(got) ELSE Len(file)

\* the items the iterator had left to read when it was created
Rest == SubSeq(file, Start + 1, Len(file))

\* every read of the remaining input succeeds
RestOk == \A i \in 1..Len(Rest) : Rest[i].ok

\* a text that is empty or consists of whitespace only
BlankText(t) == \A i \in 1..Len(t) : t[i] \in {" ", "\t"}

\* the maximal runs <<first, last>> of consecutive non-blank lines of s
RunSet(s) ==
    { r \in (1..Len(s)) \X (1..Len(s)) :
        /\ r[1] <= r[2]
        /\ \A i \in r[1]..r[2] : ~BlankText(s[i].val)
        /\ (r[1] = 1 \/ BlankText(s[r[1] - 1].val))
        /\ (r[2] = Len(s) \/ BlankText(s[r[2] + 1].val)) }

\* the k-th run of s in file order
NthRun(s, k) ==
    CHOOSE r \in RunSet(s) : Cardinality({ q \in RunSet(s) : q[1] < r[1] }) = k - 1

\* the texts of the lines of run r
RunLines(s, r) == [i \in 1..(r[2] - r[1] + 1) |-> s[r[1] + i - 1].val]

\* the lines of all blocks of a sequence of yielded items, concatenated
RECURSIVE Flatten(_)
Flatten(items) ==
    IF items = <<>> THEN <<>> ELSE Head(items).val \o Flatten(Tail(items))

\* the texts of the non-blank lines among the first n items of s, in order
RECURSIVE NonBlankTexts(_, _)
NonBlankTexts(s, n) ==
    IF n = 0 THEN <<>>
    ELSE IF BlankText(s[n].val) THEN NonBlankTexts(s, n - 1)
    ELSE Append(NonBlankTexts(s, n - 1), s[n].val)

\* t without its optional leading "+"
Unsigned(t) == IF t # <<>> /\ Head(t) = "+" THEN Tail(t) ELSE t

\* a text that denotes a u32: an optional "+", then one to nine decimal digits
\* (texts of ten or more digits are longer than any line of LineTexts)
ValidU32(t) ==
    /\ Len(Unsigned(t)) \in 1..9
    /\ \A i \in 1..Len(Unsigned(t)) :
          Unsigned(t)[i] \in {"0", "1", "2", "3", "4", "5", "6", "7", "8", "9"}

\* the decimal numeral of n, without sign or leading zeros
RECURSIVE Numeral(_)
Numeral(n) ==
    IF n < 10 THEN <<Digit[n + 1]>> ELSE Append(Numeral(n \div 10), Digit[(n % 10) + 1])

\* t without its leading zeros (the last digit stays)
RECURSIVE NoLeadingZeros(_)
NoLeadingZeros(t) ==
    IF Len(t) > 1 /\ Head(t) = "0" THEN NoLeadingZeros(Tail(t)) ELSE t

(* ------------------------------ C1 ------------------------------------- *)

\* C1: when every read succeeds, blocks() yields exactly the maximal runs of
\* consecutive non-blank lines: the k-th block yielded is the k-th run, line
\* for line, and when the iterator ends it has yielded as many blocks as there
\* are runs.
C1_BlocksAreRuns ==
    (iter = "blocks" /\ RestOk) =>
        /\ Len(out) <= Cardinality(RunSet(Rest))
        /\ \A k \in 1..Len(out) : out[k] = Ok(RunLines(Rest, NthRun(Rest, k)))
        /\ (pc = "done" => Len(out) = Cardinality(RunSet(Rest)))

\* blocks() ran to its end over a whole file of two runs, the first of two
\* lines, separated by a blank line
C1_Witness ==
    /\ iter = "blocks" /\ pc = "done" /\ RestOk /\ got = <<>>
    /\ Len(out) = 2 /\ Len(out[1].val) = 2 /\ out[1].val[1] # out[1].val[2]

(* ------------------------------ C2 ------------------------------------- *)

\* C2: when every read succeeds, the lines of the blocks yielded so far,
\* concatenated in yield order, are the non-blank lines read so far in file
\* order; at the end they are all non-blank lines of the input.
C2_BlocksLossless ==
    (iter = "blocks" /\ RestOk) =>
        /\ Flatten(out) = NonBlankTexts(Rest, pos - Start)
        /\ (pc = "done" => pos = Len(file))

\* blocks() ran to its end and yielded three lines in two blocks
C2_Witness ==
    /\ iter = "blocks" /\ pc = "done" /\ RestOk
    /\ Len(out) = 2 /\ Len(Flatten(out)) = 3 /\ Len(out[2].val) = 2

(* ------------------------------ C3 ------------------------------------- *)

\* the results of the line()/parse_line() calls, in call order
RECURSIVE Results(_)
Results(calls) ==
    IF calls = <<>> THEN <<>> ELSE <<Head(calls).res>> \o Results(Tail(calls))

\* only line() was called, k <= number of lines times
OnlyLineCalls ==
    /\ Len(got) <= Len(file)
    /\ \A i \in 1..Len(got) : got[i].op = "line"

\* C3: after k line() calls on a file of at least k lines, the k results
\* followed by what lines() yields are the items lines() alone yields on the
\* file (the file's items in order), item for item up to the cursor, and all of
\* them once lines() has ended.
C3_CursorHandOver ==
    (iter = "lines" /\ OnlyLineCalls) =>
        /\ Results(got) \o out = SubSeq(file, 1, pos)
        /\ Len(got) = Start
        /\ (pc = "done" => pos = Len(file))

\* two line() calls, then lines() ran to its end and yielded the other two lines
C3_Witness ==
    /\ iter = "lines" /\ pc = "done" /\ OnlyLineCalls
    /\ Len(got) = 2 /\ Len(out) = 2
    /\ \A i \in 1..Len(file) : file[i].ok
    /\ got[2].res # out[1]

(* ------------------------------ C4 ------------------------------------- *)

\* C4: the i-th partial read of an N-line file fails with the exhausted-input
\* error when i > N; when i <= N and the i-th line can be read, line() returns
\* exactly that line, parse_line() returns the number a valid text denotes,
\* and neither reports exhaustion.
C4_ExhaustedInput ==
    \A i \in 1..Len(got) :
        /\ i > Len(file) => got[i].res = Err(Exhausted)
        /\ (i <= Len(file) /\ file[i].ok) =>
              /\ got[i].op = "line" => got[i].res = Ok(file[i].val)
              /\ (got[i].op = "parse_line" /\ ValidU32(file[i].val)) =>
                    /\ got[i].res.ok
                    /\ Numeral(got[i].res.val) = NoLeadingZeros(Unsigned(file[i].val))
              /\ got[i].res # Err(Exhausted)

\* a two-line file read by line() three times: two lines, then the failure
C4_Witness ==
    /\ Len(file) = 2 /\ Len(got) = 3
    /\ \A i \in 1..3 : got[i].op = "line"
    /\ got[1].res.ok /\ got[2].res.ok /\ got[3].res = Err(Exhausted)

(* ------------------------------ C5 ------------------------------------- *)

\* C5: every read error the stream returned to an operation reached the
\* caller as an error value: line() and parse_line() return it, lines() and
\* parsed_lines() yield it as an item, blocks() yields an error item.
C5_ReadErrorPropagated ==
    /\ \A i \in 1..Len(got) :
          (i <= Len(file) /\ ~file[i].ok) => got[i].res = file[i]
    /\ iter \in {"lines", "parsed_lines"} =>
          \A j \in 1..Len(out) : ~file[Start + j].ok => out[j] = file[Start + j]
    /\ iter = "blocks" =>
          ((\E i \in (Start + 1)..pos : ~file[i].ok) => \E j \in 1..Len(out) : ~out[j].ok)

(* ------------------------------ C6 ------------------------------------- *)

\* C6: over an input that is empty or holds only blank lines (empty or
\* all-whitespace) blocks() yields no block, and no block it ever yields is
\* empty.
C6_BlankOnlyNoBlocks ==
    (iter = "blocks") =>
        /\ (RestOk /\ \A i \in 1..Len(Rest) : BlankText(Rest[i].val)) => out = <<>>
        /\ \A k \in 1..Len(out) : out[k].ok /\ out[k].val # <<>>

\* blocks() ran to its end over a file of an empty line and a whitespace line
C6_Witness ==
    /\ iter = "blocks" /\ pc = "done" /\ got = <<>> /\ out = <<>>
    /\ Len(file) >= 2 /\ file[1] = Ok(<<>>) /\ file[2] = Ok(<<" ">>)
    /\ \A i \in 1..Len(file) : file[i].ok /\ BlankText(file[i].val)

(* ------------------------------ C7 ------------------------------------- *)

\* C7 as stated, N = 0 included: an input of N lines, none blank, makes
\* blocks() yield exactly one block holding all N lines in order.
C7_OneBlockAnyN ==
    (iter = "blocks" /\ pc = "done" /\ RestOk
        /\ \A i \in 1..Len(Rest) : ~BlankText(Rest[i].val)) =>
        out = << Ok([i \in 1..Len(Rest) |-> Rest[i].val]) >>

\* C7 amended: an input of N >= 1 lines, none blank, makes blocks() yield
\* exactly one block holding all N lines in order.
C7_OneBlock ==
    (iter = "blocks" /\ pc = "done" /\ RestOk /\ Len(Rest) >= 1
        /\ \A i \in 1..Len(Rest) : ~BlankText(Rest[i].val)) =>
        out = << Ok([i \in 1..Len(Rest) |-> Rest[i].val]) >>

\* blocks() ran to its end over a whole file of three non-blank lines
C7_Witness ==
    /\ iter = "blocks" /\ pc = "done" /\ RestOk /\ got = <<>>
    /\ Len(file) >= 3 /\ \A i \in 1..Len(file) : ~BlankText(file[i].val)
    /\ Len(out) = 1


(* ------------------------------ C8 ------------------------------------- *)

\* C8: parsed_lines() has yielded one item per line consumed, in line order:
\* for a line whose text denotes a u32, Ok(n) with n the number the text
\* denotes (its numeral is the text); for any other line an error item; and
\* it ends only after the last line, error items or not.
C8_ParsedLines ==
    (iter = "parsed_lines") =>
        /\ Len(out) = pos - Start
        /\ \A j \in 1..Len(out) :
              IF file[Start + j].ok /\ ValidU32(file[Start + j].val)
              THEN /\ out[j].ok
                   /\ Numeral(out[j].val) = NoLeadingZeros(Unsigned(file[Start + j].val))
              ELSE ~out[j].ok
        /\ (pc = "done" => pos = Len(file))

\* parsed_lines() ran to its end and yielded a value after an error item
C8_Witness ==
    /\ iter = "parsed_lines" /\ pc = "done" /\ got = <<>>
    /\ Len(out) >= 3 /\ ~out[1].ok /\ out[2].ok /\ out[2].val = 11 /\ ~out[3].ok
    /\ \A i \in 1..Len(file) : file[i].ok

(* ------------------------------ C9 ------------------------------------- *)

\* the parse failures delivered so far, each with the text that caused it
ParseFailures ==
    { [text |-> file[i].val, err |-> got[i].res.err] :
        i \in { k \in 1..Len(got) :
                  k <= Len(file) /\ got[k].op = "parse_line" /\ file[k].ok /\ ~got[k].res.ok } }
    \cup
    { [text |-> file[Start + j].val, err |-> out[j].err] :
        j \in { k \in 1..Len(out) :
                  iter = "parsed_lines" /\ file[Start + k].ok /\ ~out[k].ok } }

\* C9 as stated: the error of a failed parse identifies the offending text,
\* so two failures with the same error content come from the same text.
C9_ErrorIdentifiesText ==
    \A a \in ParseFailures : \A b \in ParseFailures : a.err = b.err => a.text = b.text

\* the message of the parse failure a text that denotes no u32 must get: by
\* kind of failure (empty string, digits out of range, anything else)
FailureText(t) ==
    IF t = <<>> THEN "cannot parse integer from empty string"
    ELSE IF /\ Unsigned(t) # <<>>
            /\ \A i \in 1..Len(Unsigned(t)) :
                  Unsigned(t)[i] \in {"0", "1", "2", "3", "4", "5", "6", "7", "8", "9"}
         THEN "number too large to fit in target type"
    ELSE "invalid digit found in string"

\* C9 amended: a line whose text denotes no u32 fails to parse, in
\* parse_line() and in parsed_lines(), with an InvalidData error whose content
\* is the number type's parse failure; it tells the kind of failure (empty
\* string, invalid digit, out of range), not the text.
C9_ParseErrorKind ==
    /\ \A a \in ParseFailures :
          /\ ~ValidU32(a.text)
          /\ a.err = IoError("InvalidData", FailureText(a.text))
    /\ \A i \in 1..Len(got) :
          (i <= Len(file) /\ got[i].op = "parse_line" /\ file[i].ok /\ ~ValidU32(file[i].val))
              => ~got[i].res.ok
    /\ iter = "parsed_lines" =>
          \A j \in 1..Len(out) :
              (file[Start + j].ok /\ ~ValidU32(file[Start + j].val)) => ~out[j].ok

\* parse_line() failed on an empty line and parsed_lines() on a non-empty one
C9_Witness ==
    /\ iter = "parsed_lines"
    /\ \E a \in ParseFailures : a.text = <<>>
    /\ \E a \in ParseFailures : a.text = <<"3", " ">>
    /\ Len(got) >= 1 /\ got[1].op = "parse_line" /\ ~got[1].res.ok /\ file[1].ok

(* ------------------------------ C10 ------------------------------------ *)

\* C10: when the file asked for does not exist, Input::open / Input::day
\* returned a not-found error, no Input exists, and nothing has been read or
\* returned.
C10_OpenMissing ==
    (pc # "start" /\ filename # dir) =>
        /\ pc = "failed"
        /\ ~opened.ok /\ opened.err.kind = "NotFound"
        /\ reads = 0 /\ pos = 0
        /\ got = <<>> /\ iter = "none" /\ out = <<>>
        /\ ~ENABLED (line \/ parse_line \/ lines \/ parsed_lines \/ blocks)

\* Input::day(14) failed: day14.txt is not in the input directory
C10_Witness == pc = "failed" /\ filename = "day14.txt" /\ Len(file) > 0


(* ------------------------------ C11 ------------------------------------ *)

\* the number of lines handed to the caller so far: by line()/parse_line()
\* (every result but the exhausted-input error), and by the iterator
Delivered ==
    Cardinality({ i \in 1..Len(got) : got[i].res # Err(Exhausted) })
    + (IF iter = "blocks" THEN Len(Flatten(out)) ELSE Len(out))

\* C11: the reader is forward-only.  The cursor never moves backward and
\* stays within the file; every step hands out at most as many lines as it
\* consumes, so no line is returned twice; and after a line() or parse_line()
\* call failed with the exhausted-input error every later call fails with it.
C11_ForwardOnly ==
    /\ [](/\ Delivered <= pos
          /\ pos <= Len(file)
          /\ \A i \in 1..Len(got) : \A j \in i..Len(got) :
                got[i].res = Err(Exhausted) => got[j].res = Err(Exhausted))
    /\ [][/\ pos' >= pos
          /\ Delivered' >= Delivered
          /\ Delivered' - Delivered <= pos' - pos]_vars

\* a one-line file: line() returned the line, failed twice, and lines() then
\* ended without yielding anything
C11_Witness ==
    /\ Len(file) = 1 /\ Len(got) = 3 /\ got[1].res.ok
    /\ got[2].res = Err(Exhausted) /\ got[3].res = Err(Exhausted)
    /\ iter = "lines" /\ pc = "done" /\ out = <<>>


(* ------------------------------ C12 ------------------------------------ *)

\* the texts of items a..b of the file
Texts(a, b) == [i \in 1..(b - a + 1) |-> file[a + i - 1].val]

\* C12: when blocks() has just yielded a block of n lines, the last item the
\* reader consumed is either the block's last line, at the end of the file, or
\* the one blank line right after the block's n lines: nothing behind that
\* blank line has been read.
C12_BlocksNoLookAhead ==
    (pc = "blocks" /\ out # <<>>) =>
        LET n == Len(out[Len(out)].val) IN
        \/ /\ pos = Len(file)
           /\ pos - n >= Start
           /\ \A i \in (pos - n + 1)..pos : file[i].ok
           /\ Texts(pos - n + 1, pos) = out[Len(out)].val
        \/ /\ pos - 1 - n >= Start
           /\ file[pos].ok /\ BlankText(file[pos].val)
           /\ \A i \in (pos - n)..(pos - 1) : file[i].ok
           /\ Texts(pos - n, pos - 1) = out[Len(out)].val

\* the first block was yielded while a second block, behind the blank line,
\* is still unread
C12_Witness ==
    /\ pc = "blocks" /\ Len(out) = 1 /\ got = <<>>
    /\ pos = 2 /\ Len(file) = 4
    /\ file[3].ok /\ ~BlankText(file[3].val)
    /\ file[4].ok /\ ~BlankText(file[4].val)


(***************************************************************************)
(* The day programs.  Each runs on its own; while one runs, the Input is   *)
(* not touched, and `puzzle` holds the state of the computation.           *)
(***************************************************************************)

\* the Input while a puzzle computation runs
InputIdle ==
    /\ dir \in FileNames
    /\ file = <<>>
    /\ pc = "start"
    /\ filename = ""
    /\ opened = Err(IoError("None", ""))
    /\ pos = 0
    /\ reads = 0
    /\ got = <<>>
    /\ iter = "none"
    /\ out = <<>>

\* Option::None and Option::Some(v)
None == [some |-> FALSE, v |-> 0]

Some(v) == [some |-> TRUE, v |-> v]

\* two Options are the same: both None, or both Some of the same value
SameOption(a, b) == a.some = b.some /\ (a.some => a.v = b.v)

\* the least element of a non-empty set of integers
Least(S) == CHOOSE a \in S : \A b \in S : a <= b

(* ------------------------------ C22 ------------------------------------ *)

\* the first item after the cursor handed over whose read fails, 0 for none
FirstErr ==
    IF \E i \in (Start + 1)..Len(file) : ~file[i].ok
    THEN Least({ i \in (Start + 1)..Len(file) : ~file[i].ok }) ELSE 0

\* the lines read without error before the first failing read
BeforeErr == SubSeq(file, Start + 1, FirstErr - 1)

\* the last blank line among them, 0 for none: the lines behind it belong to
\* the block the failing read is in
LastBlank ==
    IF \E i \in 1..Len(BeforeErr) : BlankText(BeforeErr[i].val)
    THEN CHOOSE i \in 1..Len(BeforeErr) :
           /\ BlankText(BeforeErr[i].val)
           /\ \A j \in (i + 1)..Len(BeforeErr) : ~BlankText(BeforeErr[j].val)
    ELSE 0

\* C22: every item blocks() yields is Ok of a non-empty vector; once a read has
\* failed the iteration has ended there, and what was yielded are the blocks
\* complete before the failing read: the lines read for the block the failure
\* is in are in no item
C22_BlocksOnlyOk ==
    iter = "blocks" =>
        /\ \A j \in 1..Len(out) : out[j].ok /\ out[j].val # <<>>
        /\ (\E i \in (Start + 1)..pos : ~file[i].ok) =>
              /\ pc = "done"
              /\ pos = FirstErr
              /\ Len(out) = Cardinality(RunSet(SubSeq(BeforeErr, 1, LastBlank)))
              /\ \A k \in 1..Len(out) :
                    out[k].val = RunLines(SubSeq(BeforeErr, 1, LastBlank),
                                          NthRun(SubSeq(BeforeErr, 1, LastBlank), k))

\* a block, a blank line, the first line of a second block, then a failing read
C22_Witness ==
    /\ iter = "blocks" /\ pc = "done" /\ got = <<>>
    /\ Len(file) = 4 /\ pos = 4
    /\ file[1].ok /\ ~BlankText(file[1].val)
    /\ file[2].ok /\ BlankText(file[2].val)
    /\ file[3].ok /\ ~BlankText(file[3].val)
    /\ ~file[4].ok
    /\ Len(out) = 1 /\ out[1] = Ok(<<file[1].val>>)

(* ------------------------------ day 15: Map::pathfinder ---------------- *)

\* most cells of a map
MaxCells == 10

\* risk levels the maps are drawn from
RiskLevels == {1, 9}

\* the cells <<y, x>> of a map of the given height and width
CellsOf(height, width) == (0..(height - 1)) \X (0..(width - 1))

\* the heights and widths of the maps: non-empty, at most MaxCells cells
Shapes == { hw \in (1..MaxCells) \X (1..MaxCells) : hw[1] * hw[2] <= MaxCells }

\* the maps: rectangular, every cell a risk level
Maps ==
    UNION { { [height |-> hw[1], width |-> hw[2], risk |-> r] :
                r \in [CellsOf(hw[1], hw[2]) -> RiskLevels] } : hw \in Shapes }

\* BestPath::default()
BestPathDefault == [risk |-> None, from |-> None, done |-> FALSE]

\* pathfinder() up to its loop: bestpaths[0][0].risk = Some(0)
PathfinderStart(m) ==
    [day |-> 15, pc |-> "loop", map |-> m,
     bestpaths |-> [c \in CellsOf(m.height, m.width) |->
                      IF c = <<0, 0>> THEN [BestPathDefault EXCEPT !.risk = Some(0)]
                      ELSE BestPathDefault],
     result |-> None]

\* c comes before d in the row-by-row iteration over bestpaths
RowMajorBefore(c, d) == c[1] < d[1] \/ (c[1] = d[1] /\ c[2] < d[2])

\* the cells with a risk that are not done
Undone(bestpaths) ==
    { c \in DOMAIN bestpaths : bestpaths[c].risk.some /\ ~bestpaths[c].done }

\* next_undone_with_least_risk: min_by_key returns the first of the least
next_undone_with_least_risk(bestpaths) ==
    CHOOSE c \in Undone(bestpaths) :
        \A d \in Undone(bestpaths) \ {c} :
            \/ bestpaths[c].risk.v < bestpaths[d].risk.v
            \/ (bestpaths[c].risk.v = bestpaths[d].risk.v /\ RowMajorBefore(c, d))

\* mutant of Neighbors: the cell above is left out
NeighborsNoUp(m, c) ==
    (IF c[1] < m.height - 1 THEN {<<c[1] + 1, c[2]>>} ELSE {})
    \cup (IF c[2] < m.width - 1 THEN {<<c[1], c[2] + 1>>} ELSE {})
    \cup (IF c[2] > 0 THEN {<<c[1], c[2] - 1>>} ELSE {})

\* the neighbours of cell c = <<y, x>> the loop visits
Neighbors(m, c) ==
    (IF c[1] < m.height - 1 THEN {<<c[1] + 1, c[2]>>} ELSE {})
    \cup (IF c[2] < m.width - 1 THEN {<<c[1], c[2] + 1>>} ELSE {})
    \cup (IF c[1] > 0 THEN {<<c[1] - 1, c[2]>>} ELSE {})
    \cup (IF c[2] > 0 THEN {<<c[1], c[2] - 1>>} ELSE {})

\* the body of the for loop for neighbour n of c, whose risk is `risk`
Relax(m, bestpath, n, c, risk) ==
    IF ~bestpath.done
       /\ (~bestpath.risk.some \/ risk + m.risk[n] < bestpath.risk.v)
    THEN [bestpath EXCEPT !.risk = Some(risk + m.risk[n]), !.from = Some(c)]
    ELSE bestpath

\* one evaluation of the while condition and, when it yields a cell, one
\* iteration of the loop; the value after the loop is the function's result
pathfinder_step ==
    /\ puzzle.day = 15
    /\ puzzle.pc = "loop"
    /\ LET m == puzzle.map
           bp == puzzle.bestpaths
           target == <<m.height - 1, m.width - 1>>
       IN IF Undone(bp) = {}
          THEN puzzle' = [puzzle EXCEPT !.pc = "done", !.result = bp[target].risk]
          ELSE LET c == next_undone_with_least_risk(bp)
                   marked == [bp EXCEPT ![c].done = TRUE]
               IN IF c = target
                  THEN puzzle' = [puzzle EXCEPT !.pc = "done", !.bestpaths = marked,
                                                !.result = marked[target].risk]
                  ELSE puzzle' = [puzzle EXCEPT !.bestpaths =
                           [n \in DOMAIN marked |->
                               IF n \in Neighbors(m, c)
                               THEN Relax(m, marked[n], n, c, bp[c].risk.v)
                               ELSE marked[n]]]
    /\ UNCHANGED input

Init15 ==
    /\ InputIdle
    /\ puzzle \in { PathfinderStart(m) : m \in Maps }

Next15 == pathfinder_step

Spec15 == Init15 /\ [][Next15]_vars

(* ------------------------------ C13 ------------------------------------ *)

\* more than the risk of any path without a repeated cell
Unreached(m) == 9 * m.height * m.width + 1

\* the cells 4-connected to c
Adjacent(m, c) ==
    { d \in CellsOf(m.height, m.width) :
        \/ (d[1] = c[1] /\ (d[2] = c[2] + 1 \/ d[2] = c[2] - 1))
        \/ (d[2] = c[2] /\ (d[1] = c[1] + 1 \/ d[1] = c[1] - 1)) }

\* the least sum of the risks of the cells entered, over the paths from c to
\* the bottom right cell that enter no cell of `visited` (a path that repeats
\* a cell is never cheaper than the one without the loop)
RECURSIVE LeastFrom(_, _, _)
LeastFrom(m, c, visited) ==
    IF c = <<m.height - 1, m.width - 1>> THEN 0
    ELSE IF Adjacent(m, c) \ visited = {} THEN Unreached(m)
    ELSE Least({ m.risk[n] + LeastFrom(m, n, visited \cup {n}) :
                   n \in Adjacent(m, c) \ visited })

\* the least total risk of a path from the top left to the bottom right
LowestRisk(m) == LeastFrom(m, <<0, 0>>, {<<0, 0>>})

\* C13: for every non-empty rectangular map pathfinder() returns Some(r), r
\* the least sum, over the 4-connected paths from the top left to the bottom
\* right cell, of the risks of the cells entered (the start's is not counted).
C13_LowestRisk ==
    (puzzle.day = 15 /\ puzzle.pc = "done") =>
        puzzle.result = Some(LowestRisk(puzzle.map))

\* a 2 x 5 map whose only cheap path goes down, right, up, right and down
C13_Witness ==
    /\ puzzle.day = 15 /\ puzzle.pc = "done"
    /\ puzzle.map.height = 2 /\ puzzle.map.width = 5
    /\ \A c \in CellsOf(2, 5) :
          puzzle.map.risk[c] = IF c \in {<<0, 1>>, <<1, 3>>} THEN 9 ELSE 1
    /\ puzzle.result = Some(7)


(* ------------------------------ day 4: Game::play, Game::play_last ----- *)

\* most numbers drawn in one game
MaxRounds == 3

\* row and column indices of a board (the source's boards are [[u8; 5]; 5];
\* the model's are 2 x 2, height() and width() follow the array as there)
Rows == {0, 1}

Cols == {0, 1}

\* indices of the boards of a game
BoardIds == {0, 1}

\* the numbers on the boards, and the numbers that can be drawn
BoardNumbers == 0..3

DrawNumbers == 0..4

\* Board::height, Board::width
height == Cardinality(Rows)

width == Cardinality(Cols)

\* Board::from(numbers) for every bingo board: no number twice on a board
Boards ==
    { [numbers |-> n, marks |-> [c \in Rows \X Cols |-> FALSE]] :
        n \in { f \in [Rows \X Cols -> BoardNumbers] :
                  \A c \in Rows \X Cols : \A d \in Rows \X Cols : f[c] = f[d] => c = d } }

\* Board::score from the i-th cell in row order on: the sum of the unmarked numbers
RECURSIVE ScoreFrom(_, _)
ScoreFrom(board, i) ==
    IF i = height * width THEN 0
    ELSE (IF board.marks[<<i \div width, i % width>>] THEN 0
          ELSE board.numbers[<<i \div width, i % width>>])
         + ScoreFrom(board, i + 1)

score(board) == ScoreFrom(board, 0)

\* mutant of Won: only the row of the marked cell is checked
WonRowOnly(board, y, x) == \A xx \in Cols : board.marks[<<y, xx>>]

\* the test of Board::mark after marking <<y, x>>: column x or row y is all marked
Won(board, y, x) ==
    \/ \A yy \in Rows : board.marks[<<yy, x>>]
    \/ \A xx \in Cols : board.marks[<<y, xx>>]

\* Board::mark from the i-th cell in row order on: the board afterwards and
\* the returned Option<u32>
RECURSIVE MarkFrom(_, _, _)
MarkFrom(board, number, i) ==
    IF i = height * width THEN [board |-> board, ret |-> None]
    ELSE IF board.numbers[<<i \div width, i % width>>] # number
         THEN MarkFrom(board, number, i + 1)
    ELSE IF Won([board EXCEPT !.marks[<<i \div width, i % width>>] = TRUE],
                i \div width, i % width)
         THEN [board |-> [board EXCEPT !.marks[<<i \div width, i % width>>] = TRUE],
               ret |-> Some(score([board EXCEPT !.marks[<<i \div width, i % width>>] = TRUE])
                            * number)]
    ELSE MarkFrom([board EXCEPT !.marks[<<i \div width, i % width>>] = TRUE], number, i + 1)

mark(board, number) == MarkFrom(board, number, 0)

\* the (b, score) pairs Game::round collects, boards b and later, in board order
RECURSIVE RoundWinners(_, _, _)
RoundWinners(boards, number, b) ==
    IF b \notin BoardIds THEN <<>>
    ELSE (IF mark(boards[b], number).ret.some
          THEN << <<b, mark(boards[b], number).ret.v>> >> ELSE <<>>)
         \o RoundWinners(boards, number, b + 1)

\* Game::round: the boards afterwards and the winners of the round
round(boards, number) ==
    [boards |-> [b \in BoardIds |-> mark(boards[b], number).board],
     winners |-> RoundWinners(boards, number, 0)]

\* Game::new(boards)
GameNew(boards) ==
    [day |-> 4, pc |-> "new", boards |-> boards, numbers |-> <<>>,
     winners |-> {}, last_winner |-> None, result |-> None]

\* Game::play is called
play ==
    /\ puzzle.day = 4 /\ puzzle.pc = "new"
    /\ puzzle' = [puzzle EXCEPT !.pc = "play"]
    /\ UNCHANGED input

\* one iteration of the loop of play: round r = Len(numbers) draws `number`
play_round(number) ==
    /\ puzzle.day = 4 /\ puzzle.pc = "play"
    /\ Len(puzzle.numbers) < MaxRounds
    /\ \E rd \in {round(puzzle.boards, number)} :
          puzzle' = [puzzle EXCEPT
              !.boards = rd.boards,
              !.numbers = Append(@, number),
              !.pc = IF rd.winners # <<>> THEN "returned" ELSE @,
              !.result = IF rd.winners # <<>>
                         THEN Some(<<Len(puzzle.numbers), rd.winners[1][1], rd.winners[1][2]>>)
                         ELSE @]
    /\ UNCHANGED input

\* the numbers are used up: play returns None
play_end ==
    /\ puzzle.day = 4 /\ puzzle.pc = "play"
    /\ puzzle' = [puzzle EXCEPT !.pc = "returned", !.result = None]
    /\ UNCHANGED input

\* Game::play_last is called
play_last ==
    /\ puzzle.day = 4 /\ puzzle.pc = "new"
    /\ puzzle' = [puzzle EXCEPT !.pc = "play_last"]
    /\ UNCHANGED input

\* mutant of Record: the board is recorded whether or not it has won before
RecordAlways(acc, r, win) ==
    [winners |-> acc.winners \cup {win[1]}, last_winner |-> Some(<<r, win[1], win[2]>>)]

\* the body of the inner loop of play_last for one (b, score) of round r
Record(acc, r, win) ==
    IF win[1] \notin acc.winners
    THEN [winners |-> acc.winners \cup {win[1]}, last_winner |-> Some(<<r, win[1], win[2]>>)]
    ELSE acc

\* the inner loop of play_last over the winners of round r, in order
RECURSIVE RecordAll(_, _, _)
RecordAll(acc, r, wins) ==
    IF wins = <<>> THEN acc ELSE RecordAll(Record(acc, r, Head(wins)), r, Tail(wins))

\* one iteration of the outer loop of play_last
play_last_round(number) ==
    /\ puzzle.day = 4 /\ puzzle.pc = "play_last"
    /\ Len(puzzle.numbers) < MaxRounds
    /\ \E rd \in {round(puzzle.boards, number)} :
       \E acc \in {RecordAll([winners |-> puzzle.winners, last_winner |-> puzzle.last_winner],
                              Len(puzzle.numbers), rd.winners)} :
          puzzle' = [puzzle EXCEPT
              !.boards = rd.boards,
              !.numbers = Append(@, number),
              !.winners = acc.winners,
              !.last_winner = acc.last_winner]
    /\ UNCHANGED input

\* the numbers are used up: play_last returns last_winner
play_last_end ==
    /\ puzzle.day = 4 /\ puzzle.pc = "play_last"
    /\ puzzle' = [puzzle EXCEPT !.pc = "returned_last", !.result = puzzle.last_winner]
    /\ UNCHANGED input

Init04 ==
    /\ InputIdle
    /\ puzzle \in { GameNew(bs) : bs \in [BoardIds -> Boards] }

Next04 ==
    \/ play
    \/ \E number \in DrawNumbers : play_round(number)
    \/ play_end
    \/ play_last
    \/ \E number \in DrawNumbers : play_last_round(number)
    \/ play_last_end

Spec04 == Init04 /\ [][Next04]_vars


(* ------------------------------ claims about day 4 --------------------- *)

\* the numbers drawn in the first k rounds
Drawn(k) == { puzzle.numbers[i] : i \in 1..k }

\* board b has a row or a column all of whose numbers are drawn in the first k rounds
Complete(b, k) ==
    \/ \E y \in Rows : \A x \in Cols : puzzle.boards[b].numbers[<<y, x>>] \in Drawn(k)
    \/ \E x \in Cols : \A y \in Rows : puzzle.boards[b].numbers[<<y, x>>] \in Drawn(k)

\* the boards that have completed a row or a column by now
Completed == { b \in BoardIds : Complete(b, Len(puzzle.numbers)) }

\* the number of rounds after which board b has its first complete row or column
FirstWin(b) == Least({ k \in 1..Len(puzzle.numbers) : Complete(b, k) })

RECURSIVE SumSet(_)
SumSet(S) == IF S = {} THEN 0 ELSE (CHOOSE a \in S : TRUE) + SumSet(S \ {CHOOSE a \in S : TRUE})

\* the numbers of board b not drawn in the first k rounds, summed, times the k-th number
ScoreAt(b, k) ==
    SumSet({ puzzle.boards[b].numbers[c] : c \in Rows \X Cols } \ Drawn(k)) * puzzle.numbers[k]

\* C14: play returns the round (counted from 0) after which a board first has a
\* complete row or column, the lowest such board of that round and the sum of
\* its numbers not drawn so far times the number of that round; it returns None
\* exactly when no board completes a row or column
C14_PlayFirstWinner ==
    (puzzle.day = 4 /\ puzzle.pc = "returned") =>
        IF Completed = {} THEN ~puzzle.result.some
        ELSE SameOption(puzzle.result,
               Some(<< Least({ FirstWin(b) : b \in Completed }) - 1,
                       Least({ b \in Completed :
                                 FirstWin(b) = Least({ FirstWin(c) : c \in Completed }) }),
                       ScoreAt(Least({ b \in Completed :
                                         FirstWin(b) = Least({ FirstWin(c) : c \in Completed }) }),
                               Least({ FirstWin(b) : b \in Completed })) >>))

\* both boards complete their first column, and no row, with the third number
C14_Witness ==
    /\ puzzle.day = 4 /\ puzzle.pc = "returned"
    /\ puzzle.numbers = <<0, 4, 2>>
    /\ puzzle.boards[0].numbers = [c \in Rows \X Cols |-> 2 * c[1] + c[2]]
    /\ puzzle.boards[1].numbers = [c \in Rows \X Cols |-> (2 * c[1] + c[2] + 2) % 4]
    /\ SameOption(puzzle.result, Some(<<2, 0, 8>>))

\* C15: play_last counts a board as a winner once, after the round of its first
\* complete row or column, and its result is the round, index and score of a
\* board whose first win is the last one, the score taken at that first win
C15_PlayLastWinner ==
    (puzzle.day = 4 /\ puzzle.pc \in {"play_last", "returned_last"}) =>
        /\ puzzle.winners = Completed
        /\ puzzle.pc = "returned_last" => SameOption(puzzle.result, puzzle.last_winner)
        /\ IF Completed = {} THEN ~puzzle.last_winner.some
           ELSE /\ puzzle.last_winner.some
                /\ puzzle.last_winner.v[2] \in Completed
                /\ \A b \in Completed : FirstWin(b) <= FirstWin(puzzle.last_winner.v[2])
                /\ puzzle.last_winner.v[1] = FirstWin(puzzle.last_winner.v[2]) - 1
                /\ puzzle.last_winner.v[3] =
                     ScoreAt(puzzle.last_winner.v[2], FirstWin(puzzle.last_winner.v[2]))

\* board 0 wins with the second number and completes a column again with the
\* third, with which board 1 wins
C15_Witness ==
    /\ puzzle.day = 4 /\ puzzle.pc = "returned_last"
    /\ puzzle.numbers = <<0, 1, 3>>
    /\ puzzle.boards[0].numbers = [c \in Rows \X Cols |-> 2 * c[1] + c[2]]
    /\ puzzle.boards[0].marks[<<1, 1>>]
    /\ puzzle.boards[1].numbers[<<0, 1>>] = 3
    /\ puzzle.boards[1].numbers[<<1, 1>>] = 1
    /\ puzzle.winners = {0, 1}
    /\ SameOption(puzzle.result, Some(<<2, 1, 6>>))


(* ------------------------------ day 11: Grid::step_until_full_flash ---- *)

\* most octopuses of a small grid
MaxOctopuses == 3

\* most steps of one run
MaxSteps == 10

\* the energy levels of the input: one decimal digit per octopus
EnergyLevels == 0..9

\* the grids: rectangular, at most MaxOctopuses octopuses
Grids ==
    UNION { { [height |-> hw[1], width |-> hw[2], energy |-> e] :
                e \in [CellsOf(hw[1], hw[2]) -> EnergyLevels] } :
            hw \in { s \in (1..MaxOctopuses) \X (1..MaxOctopuses) :
                       s[1] * s[2] <= MaxOctopuses } }

\* the calls increase(x', y') that increase(x, y) makes when the cell flashes, in order
AdjacentCalls(x, y) ==
    (IF x > 0 /\ y > 0 THEN << <<x - 1, y - 1>> >> ELSE <<>>)
    \o (IF x > 0 THEN << <<x - 1, y>>, <<x - 1, y + 1>> >> ELSE <<>>)
    \o (IF y > 0 THEN << <<x, y - 1>>, <<x + 1, y - 1>> >> ELSE <<>>)
    \o << <<x, y + 1>>, <<x + 1, y>>, <<x + 1, y + 1>> >>

RECURSIVE increase(_, _, _)
RECURSIVE IncreaseEach(_, _)
\* Grid::increase: the energy levels afterwards; a cell outside the grid is left alone
increase(energy, x, y) ==
    IF <<y, x>> \notin DOMAIN energy THEN energy
    ELSE IF energy[<<y, x>>] + 1 = 10
         THEN IncreaseEach([energy EXCEPT ![<<y, x>>] = 10], AdjacentCalls(x, y))
    ELSE [energy EXCEPT ![<<y, x>>] = @ + 1]

\* the calls of increase in the given order
IncreaseEach(energy, calls) ==
    IF calls = <<>> THEN energy
    ELSE IncreaseEach(increase(energy, Head(calls)[1], Head(calls)[2]), Tail(calls))

\* the cells <<x, y>> in the order of the loops of step
StepOrder(grid) ==
    [i \in 1..(grid.height * grid.width) |->
        <<(i - 1) % grid.width, (i - 1) \div grid.width>>]

\* Grid::step: the grid afterwards and the number of flashes
step(grid) ==
    [grid |-> [grid EXCEPT !.energy =
                 [c \in DOMAIN grid.energy |->
                    IF IncreaseEach(grid.energy, StepOrder(grid))[c] >= 10 THEN 0
                    ELSE IncreaseEach(grid.energy, StepOrder(grid))[c]]],
     flashes |-> Cardinality({ c \in DOMAIN grid.energy :
                                 IncreaseEach(grid.energy, StepOrder(grid))[c] >= 10 })]

\* step_until_full_flash is called on a grid
FullFlashStart(grid) ==
    [day |-> 11, pc |-> "loop", grid |-> grid, steps |-> 0, flashes |-> 0, result |-> None]

\* one iteration of the loop of step_until_full_flash
step_until_full_flash_loop ==
    /\ puzzle.day = 11 /\ puzzle.pc = "loop"
    /\ puzzle.steps < MaxSteps
    /\ \E st \in {step(puzzle.grid)} :
          puzzle' = [puzzle EXCEPT
              !.steps = @ + 1,
              !.grid = st.grid,
              !.flashes = st.flashes,
              !.pc = IF st.flashes = 100 THEN "returned" ELSE @,
              !.result = IF st.flashes = 100 THEN Some(puzzle.steps + 1) ELSE @]
    /\ UNCHANGED input

Init11 ==
    /\ InputIdle
    /\ puzzle \in { FullFlashStart(g) : g \in Grids }

Next11 == step_until_full_flash_loop

Spec11 == Init11 /\ [][Next11]_vars

\* C16: after a step in which every octopus of the grid has flashed,
\* step_until_full_flash has returned the number of that step
C16_FullFlashReturned ==
    (puzzle.day = 11 /\ puzzle.steps > 0
       /\ puzzle.flashes = puzzle.grid.height * puzzle.grid.width)
    => (puzzle.pc = "returned" /\ puzzle.result = Some(puzzle.steps))


(* ------------------------------ day 12: PathFinder --------------------- *)

\* most lines (connections) of a cave system
MaxConnections == 3

\* the caves: CaveName::Start, Big("A"), Small("a"), Small("b"), End
CaveNames == {"start", "A", "a", "b", "end"}

IsBig(name) == name = "A"

IsSmall(name) == name \in {"a", "b"}

\* the derived order of CaveName: Start < Big(_) < Small(_) < End, names as strings
Ord(name) ==
    CASE name = "start" -> 0 [] name = "A" -> 1 [] name = "a" -> 2
      [] name = "b" -> 3 [] name = "end" -> 4

\* the lines name1-name2 of an input; no line connects a big cave with a big cave
ConnectionLines == { l \in CaveNames \X CaveNames : ~(IsBig(l[1]) /\ IsBig(l[2])) }

\* the inputs: at most MaxConnections lines, in one order of the lines
\* (Caves::try_from sorts the exits, so the order of the lines is without effect)
CaveLines ==
    UNION { { ls \in [1..n -> ConnectionLines] :
                \A i \in 1..(n - 1) :
                    5 * Ord(ls[i][1]) + Ord(ls[i][2])
                      <= 5 * Ord(ls[i + 1][1]) + Ord(ls[i + 1][2]) } :
            n \in 0..MaxConnections }

\* the names pushed to the entry of `name` by the first loop of Caves::try_from
\* over the lines `text`
RECURSIVE Pushed(_, _)
Pushed(text, name) ==
    IF text = <<>> THEN <<>>
    ELSE (IF Head(text)[1] = name THEN <<Head(text)[2]>> ELSE <<>>)
         \o (IF Head(text)[2] = name THEN <<Head(text)[1]>> ELSE <<>>)
         \o Pushed(Tail(text), name)

\* `name` put into a sorted list behind the names that are not greater
Insert(sorted, name) ==
    SubSeq(sorted, 1, Cardinality({ i \in 1..Len(sorted) : Ord(sorted[i]) <= Ord(name) }))
    \o <<name>>
    \o SubSeq(sorted, Cardinality({ i \in 1..Len(sorted) : Ord(sorted[i]) <= Ord(name) }) + 1,
              Len(sorted))

\* exits.sort()
RECURSIVE Sort(_)
Sort(exits) ==
    IF exits = <<>> THEN <<>>
    ELSE Insert(Sort(SubSeq(exits, 1, Len(exits) - 1)), exits[Len(exits)])

\* Caves::try_from(lines) with Caves::possible_exits_for: the sorted exits of
\* every cave, none for a cave without entry
CavesTryFrom(text) == [name \in CaveNames |-> Sort(Pushed(text, name))]

\* no duplicate small cave
NoDupe == [some |-> FALSE, v |-> ""]

\* PathFinder::push: exits holds, for every cave of the path, the index of the
\* next exit its iterator gives
push(pf, name) == [pf EXCEPT !.path = Append(@, name), !.exits = Append(@, 1)]

\* PathFinder::pop
pop(pf) ==
    [pf EXCEPT !.dupe = IF pf.dupe = Some(pf.path[Len(pf.path)]) THEN NoDupe ELSE @,
               !.path = SubSeq(@, 1, Len(@) - 1),
               !.exits = SubSeq(@, 1, Len(@) - 1)]

\* PathFinder::new(caves)
PathFinderNew(caves) ==
    push([caves |-> caves, path |-> <<>>, exits |-> <<>>, extra |-> FALSE, dupe |-> NoDupe],
         "start")

\* the while loop of next_cave: the path finder afterwards and the returned Option
RECURSIVE NextCaveLoop(_)
NextCaveLoop(pf) ==
    IF pf.path = <<>> THEN [pf |-> pf, ret |-> NoDupe]
    ELSE IF pf.exits[Len(pf.exits)] > Len(pf.caves[pf.path[Len(pf.path)]])
         THEN NextCaveLoop(pop(pf))
    ELSE IF /\ \E i \in 1..Len(pf.path) :
                   pf.path[i] = pf.caves[pf.path[Len(pf.path)]][pf.exits[Len(pf.exits)]]
            /\ pf.extra
            /\ IsSmall(pf.caves[pf.path[Len(pf.path)]][pf.exits[Len(pf.exits)]])
            /\ ~pf.dupe.some
         THEN [pf |-> push([pf EXCEPT
                              !.exits[Len(pf.exits)] = @ + 1,
                              !.dupe = Some(pf.caves[pf.path[Len(pf.path)]][pf.exits[Len(pf.exits)]])],
                           pf.caves[pf.path[Len(pf.path)]][pf.exits[Len(pf.exits)]]),
               ret |-> Some(pf.caves[pf.path[Len(pf.path)]][pf.exits[Len(pf.exits)]])]
    ELSE IF \/ ~\E i \in 1..Len(pf.path) :
                   pf.path[i] = pf.caves[pf.path[Len(pf.path)]][pf.exits[Len(pf.exits)]]
            \/ IsBig(pf.caves[pf.path[Len(pf.path)]][pf.exits[Len(pf.exits)]])
         THEN [pf |-> push([pf EXCEPT !.exits[Len(pf.exits)] = @ + 1],
                           pf.caves[pf.path[Len(pf.path)]][pf.exits[Len(pf.exits)]]),
               ret |-> Some(pf.caves[pf.path[Len(pf.path)]][pf.exits[Len(pf.exits)]])]
    ELSE NextCaveLoop([pf EXCEPT !.exits[Len(pf.exits)] = @ + 1])

\* PathFinder::next_cave
next_cave(pf) ==
    IF pf.path # <<>> /\ pf.path[Len(pf.path)] = "end"
    THEN NextCaveLoop(pop(pf)) ELSE NextCaveLoop(pf)

\* Caves::paths on the caves of the given lines
PathsStart(text) ==
    [day |-> 12, pc |-> "new", text |-> text, pf |-> PathFinderNew(CavesTryFrom(text)),
     yielded |-> <<>>]

\* PathFinder::extra, before the first path is asked for
extra ==
    /\ puzzle.day = 12 /\ puzzle.pc = "new"
    /\ ~puzzle.pf.extra
    /\ puzzle' = [puzzle EXCEPT !.pf.extra = TRUE]
    /\ UNCHANGED input

\* one iteration of the loop of Iterator::next: one call of next_cave; the
\* path is yielded when the cave is End, the iterator ends when there is none
next ==
    /\ puzzle.day = 12 /\ puzzle.pc \in {"new", "next"}
    /\ \E nc \in {next_cave(puzzle.pf)} :
          puzzle' = [puzzle EXCEPT
              !.pf = nc.pf,
              !.pc = IF nc.ret.some THEN "next" ELSE "done",
              !.yielded = IF nc.ret = Some("end") THEN Append(@, nc.pf.path) ELSE @]
    /\ UNCHANGED input

Init12 ==
    /\ InputIdle
    /\ puzzle \in { PathsStart(text) : text \in CaveLines }

Next12 ==
    \/ extra
    \/ next

Spec12 == Init12 /\ [][Next12]_vars


(* ------------------------------ claims about day 12 -------------------- *)

\* a line of the input connects the caves c and d
Connected(c, d) ==
    \E i \in 1..Len(puzzle.text) : puzzle.text[i] \in {<<c, d>>, <<d, c>>}

\* how often cave c is on path p
Count(p, c) == Cardinality({ i \in 1..Len(p) : p[i] = c })

\* the rule for a path: start, end and every small cave at most once; with the
\* extra rule one small cave may be there twice
Allowed(p, extraRule) ==
    /\ Count(p, "start") <= 1 /\ Count(p, "end") <= 1
    /\ \A c \in CaveNames : IsSmall(c) => Count(p, c) <= (IF extraRule THEN 2 ELSE 1)
    /\ Cardinality({ c \in CaveNames : IsSmall(c) /\ Count(p, c) = 2 }) <= 1

\* the allowed paths that lengthen a path of the set `begun` by one connected cave
Lengthened(begun, extraRule) ==
    { q \in UNION { { Append(p, c) : c \in { d \in CaveNames : Connected(p[Len(p)], d) } } :
                    p \in begun } : Allowed(q, extraRule) }

\* the allowed paths to end that begin with a path of `begun`
RECURSIVE Walks(_, _)
Walks(begun, extraRule) ==
    IF begun = {} THEN {}
    ELSE UNION { { q \in n : q[Len(q)] = "end" }
                 \cup Walks({ q \in n : q[Len(q)] # "end" }, extraRule) :
                 n \in { Lengthened(begun, extraRule) } }

\* the paths from start to end
RefPaths(extraRule) == Walks({ <<"start">> }, extraRule)

\* p is before q in the lexicographic order of the cave names
LexLess(p, q) ==
    \E i \in 1..Len(q) :
        /\ \A j \in 1..(i - 1) : j <= Len(p) /\ p[j] = q[j]
        /\ i > Len(p) \/ Ord(p[i]) < Ord(q[i])

\* the yielded paths are the paths from start to end, each once, in ascending order
YieldedAre(extraRule) ==
    /\ { puzzle.yielded[i] : i \in 1..Len(puzzle.yielded) } = RefPaths(extraRule)
    /\ \A i \in 1..Len(puzzle.yielded) : \A j \in 1..Len(puzzle.yielded) :
           i < j => puzzle.yielded[i] # puzzle.yielded[j]
    /\ \A i \in 1..(Len(puzzle.yielded) - 1) :
           LexLess(puzzle.yielded[i], puzzle.yielded[i + 1])

\* the dupe marker names the small cave that is twice on the current path, and
\* is not set when there is none
DupeMarked ==
    /\ puzzle.pf.dupe.some =>
           IsSmall(puzzle.pf.dupe.v) /\ Count(puzzle.pf.path, puzzle.pf.dupe.v) = 2
    /\ \A c \in CaveNames :
           (IsSmall(c) /\ Count(puzzle.pf.path, c) >= 2) => puzzle.pf.dupe = Some(c)

\* no line connects a cave with itself and no connection has two lines
Plain ==
    /\ \A i \in 1..Len(puzzle.text) : puzzle.text[i][1] # puzzle.text[i][2]
    /\ \A i \in 1..Len(puzzle.text) : \A j \in 1..Len(puzzle.text) :
           i < j => {puzzle.text[i][1], puzzle.text[i][2]}
                      # {puzzle.text[j][1], puzzle.text[j][2]}

\* C17: without the extra rule the iterator has yielded, when it ends, exactly
\* the paths from start to end that have start, end and every small cave at
\* most once, each path once, in ascending lexicographic order
C17_PathsOnce ==
    (puzzle.day = 12 /\ puzzle.pc = "done" /\ ~puzzle.pf.extra) => YieldedAre(FALSE)

\* C18: with the extra rule the dupe marker is set exactly while a small cave
\* is twice on the current path, and the iterator has yielded, when it ends,
\* exactly the paths with at most one small cave twice, each path once
C18_ExtraPathsOnce ==
    (puzzle.day = 12 /\ puzzle.pf.extra) =>
        /\ DupeMarked
        /\ puzzle.pc = "done" => YieldedAre(TRUE)

\* what holds of both kinds of iteration when every connection has one line
\* and no cave is connected with itself
PathsOfPlainCaves ==
    (puzzle.day = 12 /\ Plain) =>
        /\ DupeMarked
        /\ puzzle.pc = "done" => YieldedAre(puzzle.pf.extra)


(* ------------------------------ day 7: Swarm::least_fuel_required ------ *)

\* most crabs of a swarm
MaxCrabs == 3

\* the rightmost position a crab can have
MaxPosition == 4

\* FuelModel
FuelModels == {"Simple", "Realistic"}

\* Swarm::from(positions) for every slice of positions
Swarms == UNION { [1..n -> 0..MaxPosition] : n \in 0..MaxCrabs }

\* FuelModel::fuel_for_distance
fuel_for_distance(model, distance) ==
    IF model = "Simple" THEN distance ELSE ((1 + distance) * distance) \div 2

\* Swarm::max_position: the greatest position, 0 for no crab
max_position(positions) ==
    IF positions = <<>> THEN 0
    ELSE CHOOSE m \in { positions[i] : i \in 1..Len(positions) } :
           \A i \in 1..Len(positions) : positions[i] <= m

\* Swarm::fuel_required, summed from the i-th crab on
RECURSIVE FuelFrom(_, _, _, _)
FuelFrom(positions, position, model, i) ==
    IF i > Len(positions) THEN 0
    ELSE fuel_for_distance(model, IF positions[i] > position
                                  THEN positions[i] - position
                                  ELSE position - positions[i])
         + FuelFrom(positions, position, model, i + 1)

fuel_required(positions, position, model) == FuelFrom(positions, position, model, 1)

\* Swarm::least_fuel_required: the first position of 0..max_position(), the
\* end of the range left out, with the least fuel; (0, 0) for the empty range
least_fuel_required(positions, model) ==
    IF max_position(positions) = 0 THEN <<0, 0>>
    ELSE << Least({ at \in 0..(max_position(positions) - 1) :
                      \A q \in 0..(max_position(positions) - 1) :
                          fuel_required(positions, at, model)
                            <= fuel_required(positions, q, model) }),
            fuel_required(positions,
                Least({ at \in 0..(max_position(positions) - 1) :
                          \A q \in 0..(max_position(positions) - 1) :
                              fuel_required(positions, at, model)
                                <= fuel_required(positions, q, model) }),
                model) >>

\* a swarm and a fuel model before the call
SwarmStart(positions, model) ==
    [day |-> 7, pc |-> "call", positions |-> positions, model |-> model, result |-> <<0, 0>>]

\* the call of least_fuel_required
least_fuel ==
    /\ puzzle.day = 7 /\ puzzle.pc = "call"
    /\ puzzle' = [puzzle EXCEPT
           !.pc = "returned",
           !.result = least_fuel_required(puzzle.positions, puzzle.model)]
    /\ UNCHANGED input

Init07 ==
    /\ InputIdle
    /\ puzzle \in { SwarmStart(positions, model) : positions \in Swarms, model \in FuelModels }

Next07 == least_fuel

Spec07 == Init07 /\ [][Next07]_vars

\* C19: least_fuel_required returns a position with its fuel, and no position
\* from 0 up to and including the rightmost crab needs less fuel
C19_LeastFuel ==
    (puzzle.day = 7 /\ puzzle.pc = "returned") =>
        /\ puzzle.result[2] = fuel_required(puzzle.positions, puzzle.result[1], puzzle.model)
        /\ \A q \in 0..max_position(puzzle.positions) :
               puzzle.result[2] <= fuel_required(puzzle.positions, q, puzzle.model)


(* ------------------------------ day 17: fire --------------------------- *)

\* the steps over which the flight of a probe is followed to decide whether it
\* is ever inside the target area
Horizon == 402

\* the number of iterations of the loop of fire
FireSteps == 400

\* the initial velocities
Velocities == (-1..2) \X (-2..2)

\* the target areas: a RangeInclusive <<start, end>> for x and one for y, the
\* empty range 2..=1 and a range far below among them
Areas ==
    { [x |-> rx, y |-> ry] :
        rx \in { <<0, 0>>, <<1, 3>>, <<-2, -1>>, <<2, 1>> },
        ry \in { <<-3, -1>>, <<0, 1>>, <<2, 2>>, <<-80601, -80601>> } }

\* RangeInclusive::contains
contains(range, v) == range[1] <= v /\ v <= range[2]

\* isize::signum
signum(v) == IF v > 0 THEN 1 ELSE IF v < 0 THEN -1 ELSE 0

\* Probe::new(velocity)
ProbeNew(velocity) == [position |-> <<0, 0>>, velocity |-> velocity, max_y |-> 0]

\* Probe::step
ProbeStep(probe) ==
    [position |-> <<probe.position[1] + probe.velocity[1],
                    probe.position[2] + probe.velocity[2]>>,
     velocity |-> <<probe.velocity[1] - signum(probe.velocity[1]), probe.velocity[2] - 1>>,
     max_y |-> IF probe.position[2] + probe.velocity[2] > probe.max_y
               THEN probe.position[2] + probe.velocity[2] ELSE probe.max_y]

\* Probe::check_target
check_target(probe, target_area) ==
    IF contains(target_area.x, probe.position[1]) /\ contains(target_area.y, probe.position[2])
    THEN "Hit"
    ELSE IF \/ probe.position[1] < target_area.x[1] /\ probe.velocity[1] > 0
            \/ probe.position[1] > target_area.x[2] /\ probe.velocity[1] < 0
            \/ probe.position[2] < target_area.y[1] /\ probe.velocity[2] > 0
            \/ probe.position[2] > target_area.y[2]
    THEN "Uncertain"
    ELSE "Miss"

\* fire(velocity, target_area) before the loop
FireStart(velocity, target_area) ==
    [day |-> 17, pc |-> "loop", velocity |-> velocity, target_area |-> target_area,
     probe |-> ProbeNew(velocity), i |-> 0, check |-> "Uncertain", result |-> None]

\* one iteration of the loop of fire; after the last one fire returns None
fire_step ==
    /\ puzzle.day = 17 /\ puzzle.pc = "loop"
    /\ \E probe \in {ProbeStep(puzzle.probe)} :
       \E check \in {check_target(probe, puzzle.target_area)} :
          puzzle' = [puzzle EXCEPT
              !.probe = probe,
              !.check = check,
              !.i = @ + 1,
              !.pc = IF check = "Uncertain" /\ puzzle.i + 1 < FireSteps THEN "loop"
                     ELSE "returned",
              !.result = IF check = "Hit"
                         THEN Some(<<puzzle.i + 1, probe.position, probe.max_y>>)
                         ELSE None]
    /\ UNCHANGED input

Init17 ==
    /\ InputIdle
    /\ puzzle \in { FireStart(velocity, target_area) :
                      velocity \in Velocities, target_area \in Areas }

Next17 == fire_step

Spec17 == Init17 /\ [][Next17]_vars

\* the position of a probe after k steps: the horizontal velocity goes to 0 by
\* one a step, the vertical one falls by one a step
PositionAfter(velocity, k) ==
    << signum(velocity[1])
         * (IF k <= velocity[1] * signum(velocity[1])
            THEN k * velocity[1] * signum(velocity[1]) - (k * (k - 1)) \div 2
            ELSE (velocity[1] * (velocity[1] + signum(velocity[1]))) \div 2),
       k * velocity[2] - (k * (k - 1)) \div 2 >>

\* the probe of this flight is inside the target area after k steps
InsideAfter(k) ==
    /\ contains(puzzle.target_area.x, PositionAfter(puzzle.velocity, k)[1])
    /\ contains(puzzle.target_area.y, PositionAfter(puzzle.velocity, k)[2])

\* the greatest y of the flight up to step n
HighestUpTo(n) ==
    CHOOSE h \in { PositionAfter(puzzle.velocity, k)[2] : k \in 0..n } :
        \A k \in 0..n : PositionAfter(puzzle.velocity, k)[2] <= h

\* what the claim has fire return
FireRef ==
    IF \E k \in 1..Horizon : InsideAfter(k)
    THEN Some(<< Least({ k \in 1..Horizon : InsideAfter(k) }),
                 PositionAfter(puzzle.velocity, Least({ k \in 1..Horizon : InsideAfter(k) })),
                 HighestUpTo(Least({ k \in 1..Horizon : InsideAfter(k) })) >>)
    ELSE None

\* C20: fire returns the first step after which the probe is inside the target
\* area, with the position and the greatest height up to then, and None only
\* when the probe is never inside the area
C20_FireHits ==
    (puzzle.day = 17 /\ puzzle.pc = "returned") => SameOption(puzzle.result, FireRef)

\* the same for the flights that fire follows to their end: those whose first
\* step inside the area, if there is one, is within the steps of the loop; and
\* no step after a Miss is inside the area
FireWithinSteps ==
    /\ (puzzle.day = 17 /\ puzzle.pc = "returned"
          /\ ~\E k \in (FireSteps + 1)..Horizon : InsideAfter(k))
         => SameOption(puzzle.result, FireRef)
    /\ (puzzle.day = 17 /\ puzzle.check = "Miss") =>
           \A k \in puzzle.i..Horizon : ~InsideAfter(k)


(* ------------------------------ day 10: parse -------------------------- *)

\* most characters of a line
MaxTokens == 4

\* the opening and the closing characters, and one character that is neither
Openers == {"(", "[", "{", "<"}

Closers == {")", "]", "}", ">"}

Tokens == Openers \cup Closers \cup {"x"}

\* the lines given to parse
ChunkLines == UNION { [1..n -> Tokens] : n \in 0..MaxTokens }

\* mutant of Closer: every chunk is closed by a round bracket
CloserRound(token) == ")"

\* the character pushed for an opening character
Closer(token) ==
    CASE token = "(" -> ")" [] token = "[" -> "]" [] token = "{" -> "}" [] token = "<" -> ">"

\* ParseError
Corrupted(expected, found) == [kind |-> "Corrupted", expected |-> expected, found |-> found]

Incomplete(chunks) == [kind |-> "Incomplete", chunks |-> chunks]

Syntax == [kind |-> "Syntax"]

\* the loop of parse from the i-th character on, and what follows the loop
RECURSIVE ParseFrom(_, _, _)
ParseFrom(chars, i, chunks) ==
    IF i > Len(chars)
    THEN (IF chunks # <<>> THEN Err(Incomplete(chunks)) ELSE Ok(<<>>))
    ELSE IF chars[i] \in Openers
         THEN ParseFrom(chars, i + 1, Append(chunks, Closer(chars[i])))
    ELSE IF chars[i] \in Closers
         THEN (IF chunks = <<>> THEN Err(Syntax)
               ELSE IF chars[i] # chunks[Len(chunks)]
                    THEN Err(Corrupted(chunks[Len(chunks)], chars[i]))
               ELSE ParseFrom(chars, i + 1, SubSeq(chunks, 1, Len(chunks) - 1)))
    ELSE Err(Syntax)

\* a line before the call of parse
ParseStart(chars) == [day |-> 10, pc |-> "call", chars |-> chars, result |-> Ok(<<>>)]

\* the call parse(line)
parse_chunks ==
    /\ puzzle.day = 10 /\ puzzle.pc = "call"
    /\ puzzle' = [puzzle EXCEPT !.pc = "returned", !.result = ParseFrom(puzzle.chars, 1, <<>>)]
    /\ UNCHANGED input

Init10 ==
    /\ InputIdle
    /\ puzzle \in { ParseStart(chars) : chars \in ChunkLines }

Next10 == parse_chunks

Spec10 == Init10 /\ [][Next10]_vars

\* an opening character and the closing character of its kind
Pair(a, b) == <<a, b>> \in { <<"(", ")">>, <<"[", "]">>, <<"{", "}">>, <<"<", ">">> }

\* what is left of a line when a chunk without content is taken out of it as
\* long as there is one
RECURSIVE Reduced(_)
Reduced(chars) ==
    IF \E i \in 1..(Len(chars) - 1) : Pair(chars[i], chars[i + 1])
    THEN Reduced(SubSeq(chars, 1,
                        Least({ i \in 1..(Len(chars) - 1) : Pair(chars[i], chars[i + 1]) }) - 1)
                 \o SubSeq(chars,
                        Least({ i \in 1..(Len(chars) - 1) : Pair(chars[i], chars[i + 1]) }) + 2,
                        Len(chars)))
    ELSE chars

\* what the claim has parse return for a line whose reduced form is `left`:
\* Ok for nothing left; for a first closing character Syntax when no opening
\* character is before it and Corrupted otherwise; Incomplete with the closing
\* characters of the opening ones left, in their order
ParseRef(left) ==
    IF left = <<>> THEN Ok(<<>>)
    ELSE IF \A i \in 1..Len(left) : left[i] \in Openers
         THEN Err(Incomplete([i \in 1..Len(left) |->
                  CHOOSE c \in Closers : Pair(left[i], c)]))
    ELSE IF left[1] \in Closers THEN Err(Syntax)
    ELSE Err(Corrupted(
             CHOOSE c \in Closers :
                 Pair(left[Least({ i \in 1..Len(left) : left[i] \in Closers }) - 1], c),
             left[Least({ i \in 1..Len(left) : left[i] \in Closers })]))

\* C21: for a line of bracket characters parse returns Ok exactly when the
\* brackets are balanced, Corrupted(expected, found) for the first closing
\* character that does not close the last open chunk, Syntax for a closing
\* character without open chunk, and Incomplete with the expected closing
\* characters in the order of their opening characters at the end of the line
C21_ParseChunks ==
    (puzzle.day = 10 /\ puzzle.pc = "returned"
       /\ \A i \in 1..Len(puzzle.chars) : puzzle.chars[i] \in Openers \cup Closers)
    => puzzle.result = ParseRef(Reduced(puzzle.chars))

\* a closed chunk inside an open one, then the wrong closing character
C21_Witness ==
    /\ puzzle.day = 10 /\ puzzle.pc = "returned"
    /\ puzzle.chars = <<"(", "<", ">", "]">>
    /\ puzzle.result = Err(Corrupted(")", "]"))

====
